---- MODULE Spec2Model ----
(***************************************************************************)
(* Unit allocation and rental state tracking of hjnc_rental (src/app.py).  *)
(*                                                                         *)
(* The store is the SQLite file rental.db (app.py:31-33).  The tables the  *)
(* core touches are walkie_talkie_units, rental, returns_log and           *)
(* equipment.  Text columns are modelled as tuples of one-character        *)
(* strings so that formatting (f"No.{n}", f"{n:06d}", f"Unknown-{u}") and  *)
(* the SQL functions TRIM and UPPER are computed, not assumed.             *)
(*                                                                         *)
(* Transactions.  The sqlite3 driver opens a transaction only in front of  *)
(* the first INSERT/UPDATE/DELETE of a connection, and that statement      *)
(* takes the database write lock, which is held until COMMIT.  SELECTs     *)
(* that precede the first write of a handler therefore read committed      *)
(* data outside any transaction, and everything from the first write to    *)
(* the end of the `with engine.begin()` block is one atomic step for every *)
(* other connection.  Spec runs whole handlers one after the other;        *)
(* SpecConc splits the handlers of two browser sessions at exactly those   *)
(* points.                                                                 *)
(***************************************************************************)
EXTENDS Integers, Sequences, FiniteSets, TLC

\* ------------------------------------------------------------------ bounds
MaxRentals == 2
MaxBundles == 1
MaxBundlesReg == 2
MaxRentalsReg == 1
MaxBundlesConc == 1
MaxRentalsConc == 2
MaxQty == 2
MaxStartUnitNo == 1
MaxStartSerial == 2
MaxBatch == 2
MaxClaimSeq == 2
MaxBundlesList == 1
MaxRentalsList == 2
MaxBundlesDrain == 1
MaxRentalsDrain == 2

\* ------------------------------------------------------------------ text
DigitChars == <<"0", "1", "2", "3", "4", "5", "6", "7", "8", "9">>
LowerChars == <<"a", "b", "c", "d", "e", "f", "g", "h", "i", "j", "k", "l", "m",
                "n", "o", "p", "q", "r", "s", "t", "u", "v", "w", "x", "y", "z">>
UpperChars == <<"A", "B", "C", "D", "E", "F", "G", "H", "I", "J", "K", "L", "M",
                "N", "O", "P", "Q", "R", "S", "T", "U", "V", "W", "X", "Y", "Z">>

\* str(n) for a non-negative int
RECURSIVE IntToStr(_)
IntToStr(n) ==
    IF n < 10 THEN <<DigitChars[n + 1]>>
    ELSE IntToStr(n \div 10) \o <<DigitChars[(n % 10) + 1]>>

RECURSIVE ZeroPad(_, _)
ZeroPad(s, width) == IF Len(s) >= width THEN s ELSE ZeroPad(<<"0">> \o s, width)

SerialWidth == 6

\* f"No.{start_unit_no + i}"
FormatUnitNo(n) == <<"N", "o", ".">> \o IntToStr(n)

\* f"{start_sn + i:06d}"
FormatSerial(n) == ZeroPad(IntToStr(n), SerialWidth)

\* f"Unknown-{unit_no}"
UnknownSerial(unit_no) == <<"U", "n", "k", "n", "o", "w", "n", "-">> \o unit_no

\* SQL UPPER(x): ASCII letters only
UpperChar(c) ==
    IF \E i \in 1..Len(LowerChars) : LowerChars[i] = c
    THEN UpperChars[CHOOSE i \in 1..Len(LowerChars) : LowerChars[i] = c]
    ELSE c

SqlUpper(s) == [i \in 1..Len(s) |-> UpperChar(s[i])]

RECURSIVE LTrim(_)
LTrim(s) == IF s # <<>> /\ Head(s) = " " THEN LTrim(Tail(s)) ELSE s

RECURSIVE RTrim(_)
RTrim(s) == IF s # <<>> /\ s[Len(s)] = " " THEN RTrim(SubSeq(s, 1, Len(s) - 1)) ELSE s

\* characters str.strip() removes
PyWhitespace == {" ", "\t", "\n", "\r"}

RECURSIVE PyLStrip(_)
PyLStrip(s) == IF s # <<>> /\ Head(s) \in PyWhitespace THEN PyLStrip(Tail(s)) ELSE s

RECURSIVE PyRStrip(_)
PyRStrip(s) ==
    IF s # <<>> /\ s[Len(s)] \in PyWhitespace
    THEN PyRStrip(SubSeq(s, 1, Len(s) - 1))
    ELSE s

\* str.strip()
PyStrip(s) == PyRStrip(PyLStrip(s))

\* TRIM(x) taken as a strip of every whitespace character
SqlTrimAnyWhitespace(s) == PyStrip(s)

\* SQL TRIM(x): strips spaces at both ends
SqlTrim(s) == RTrim(LTrim(s))

\* TRIM(UPPER(x)), the join key of _load_inventory
NormUnitNo(s) == SqlTrim(SqlUpper(s))

\* ------------------------------------------------------------------ state
VARIABLES
    units,        \* walkie_talkie_units: set of [unit_no, serial_no, bundle_id]
    rental,       \* rental: set of [id, dept, unit_no, serial_no, status, end_date]
    returns_log,  \* returns_log: set of [id, rental_id, dept]
    equipment,    \* equipment: set of [id, total_qty, available_qty]
    seq,          \* AUTOINCREMENT counters: [rental, returns_log, equipment]
    last,         \* the last request served and its outcome (history)
    sess          \* per browser session: position inside a running request

vars == <<units, rental, returns_log, equipment, seq, last, sess>>

Depts == {"Ops", "Eng"}
Sessions == {"s1", "s2"}

NoRequest == [op |-> "none", result |-> "none"]
Idle == [pc |-> "idle"]

Init ==
    /\ units = {}
    /\ rental = {}
    /\ returns_log = {}
    /\ equipment = {}
    /\ seq = [rental |-> 0, returns_log |-> 0, equipment |-> 0]
    /\ last = NoRequest
    /\ sess = [s \in Sessions |-> Idle]

\* LOWER(status) = 'rented'; the code writes only the literals 'rented' and
\* 'returned', both already lower case
IsRented(r) == r.status = "rented"

RentedRows(R) == {r \in R : IsRented(r)}

\* ------------------------------------------------- rental_items._load_inventory
\* the join written as the other read paths write it: ON r.unit_no = u.unit_no
InventoryJoinOnExact(r, u) ==
    /\ r.unit_no = u.unit_no
    /\ IsRented(r)

\* ON TRIM(UPPER(r.unit_no)) = TRIM(UPPER(u.unit_no)) AND LOWER(r.status) = 'rented'
InventoryJoinOn(r, u) ==
    /\ NormUnitNo(r.unit_no) = NormUnitNo(u.unit_no)
    /\ IsRented(r)

\* walkie_talkie_units u LEFT JOIN rental r: one row <<u, r.id>> per match,
\* one row <<u, 0>> (r.id IS NULL) for a unit without a match
InventoryJoin(U, R) ==
    UNION { IF \E r \in R : InventoryJoinOn(r, u)
            THEN {<<u, r.id>> : r \in {x \in R : InventoryJoinOn(x, u)}}
            ELSE {<<u, 0>>}
          : u \in U }

\* WHERE r.id IS NULL
LoadInventory(U, R) == {row[1] : row \in {x \in InventoryJoin(U, R) : x[2] = 0}}

ListAvailable == LoadInventory(units, rental)

\* ------------------------------------------------- rental_items (POST)
\* the lookup with the join key of _load_inventory in place of unit_no = :unit_no
LookupSerialNormalized(U, unit_no) ==
    IF \E u \in U : NormUnitNo(u.unit_no) = NormUnitNo(unit_no)
    THEN (CHOOSE u \in U : NormUnitNo(u.unit_no) = NormUnitNo(unit_no)).serial_no
    ELSE UnknownSerial(unit_no)

\* SELECT serial_no ... WHERE unit_no = :unit_no; row[0] if row else Unknown-...
LookupSerial(U, unit_no) ==
    IF \E u \in U : u.unit_no = unit_no
    THEN (CHOOSE u \in U : u.unit_no = unit_no).serial_no
    ELSE UnknownSerial(unit_no)

RentalRow(id, dept, unit_no, serial_no) ==
    [id |-> id, dept |-> dept, unit_no |-> unit_no, serial_no |-> serial_no,
     status |-> "rented", end_date |-> "period"]

\* the INSERTs of the loop; serials[i] is what the lookup of selected[i] gave
ClaimInsert(R, base, dept, selected, serials) ==
    R \cup {RentalRow(base + i, dept, selected[i], serials[i]) : i \in 1..Len(selected)}

ClaimSerials(U, selected) == [i \in 1..Len(selected) |-> LookupSerial(U, selected[i])]

\* ------------------------------------------------- return_items (POST)
\* ORDER BY id ASC LIMIT 1
MinId(S) == CHOOSE m \in S : \A x \in S : m <= x

\* ORDER BY id DESC LIMIT 1
MaxId(S) == CHOOSE m \in S : \A x \in S : x <= m

\* the same SELECT without its dept = :dept condition
FindOpenEntryAnyDept(R, dept, serial_no) ==
    LET ids == {r.id : r \in {x \in R : x.serial_no = serial_no /\ IsRented(x)}}
    IN IF ids = {} THEN 0 ELSE MaxId(ids)

\* the same SELECT with the identifier compared to unit_no
FindOpenEntryByUnitNo(R, dept, serial_no) ==
    LET ids == {r.id : r \in {x \in R : /\ x.dept = dept
                                       /\ x.unit_no = serial_no
                                       /\ IsRented(x)}}
    IN IF ids = {} THEN 0 ELSE MaxId(ids)

\* SELECT id FROM rental WHERE dept AND serial_no AND rented ORDER BY id DESC LIMIT 1
\* (0 when there is no row)
FindOpenEntry(R, dept, serial_no) ==
    LET ids == {r.id : r \in {x \in R : /\ x.dept = dept
                                       /\ x.serial_no = serial_no
                                       /\ IsRented(x)}}
    IN IF ids = {} THEN 0 ELSE MaxId(ids)

\* the UPDATE keyed by the serial_no of the row found, for every department
CloseEntrySameSerial(R, id) ==
    {IF \E x \in R : x.id = id /\ x.serial_no = r.serial_no
     THEN [r EXCEPT !.status = "returned", !.end_date = "stamped"]
     ELSE r : r \in R}

\* UPDATE rental SET status='returned', end_date=now WHERE id=:id AND rented
CloseEntry(R, id) ==
    {IF r.id = id /\ IsRented(r)
     THEN [r EXCEPT !.status = "returned", !.end_date = "stamped"]
     ELSE r : r \in R}

\* the same two statements with the log row written over the table
ReturnOneOverwritingLog(st, dept, id) ==
    [rental |-> CloseEntry(st.rental, id),
     log |-> {[id |-> st.logseq + 1, rental_id |-> id, dept |-> dept]},
     logseq |-> st.logseq + 1,
     closed |-> st.closed + Cardinality({r \in st.rental : r.id = id /\ IsRented(r)})]

\* the UPDATE and the INSERT INTO returns_log that follow a found row
ReturnOne(st, dept, id) ==
    [rental |-> CloseEntry(st.rental, id),
     log |-> st.log \cup {[id |-> st.logseq + 1, rental_id |-> id, dept |-> dept]},
     logseq |-> st.logseq + 1,
     closed |-> st.closed + Cardinality({r \in st.rental : r.id = id /\ IsRented(r)})]

\* the loop leaving at the first identifier without a row (break for continue)
RECURSIVE ReturnLoopBreakOnMiss(_, _, _, _)
ReturnLoopBreakOnMiss(st, dept, selected, i) ==
    IF i > Len(selected) THEN st
    ELSE LET id == FindOpenEntry(st.rental, dept, selected[i])
         IN IF id = 0
            THEN st
            ELSE ReturnLoopBreakOnMiss(ReturnOne(st, dept, id), dept, selected, i + 1)

\* the for-loop over selected_serials from position i on
RECURSIVE ReturnLoop(_, _, _, _)
ReturnLoop(st, dept, selected, i) ==
    IF i > Len(selected) THEN st
    ELSE LET id == FindOpenEntry(st.rental, dept, selected[i])
         IN IF id = 0
            THEN ReturnLoop(st, dept, selected, i + 1)
            ELSE ReturnLoop(ReturnOne(st, dept, id), dept, selected, i + 1)

ReturnStateOf(R, L, n) == [rental |-> R, log |-> L, logseq |-> n, closed |-> 0]

ReturnState == ReturnStateOf(rental, returns_log, seq.returns_log)

\* ------------------------------------------------- return_items._load_rented
\* ORDER BY id ASC
RECURSIVE RowsByIdAsc(_)
RowsByIdAsc(S) ==
    IF S = {} THEN <<>>
    ELSE LET m == CHOOSE r \in S : \A x \in S : r.id <= x.id
         IN <<m>> \o RowsByIdAsc(S \ {m})

\* ORDER BY id DESC
RECURSIVE RowsByIdDesc(_)
RowsByIdDesc(S) ==
    IF S = {} THEN <<>>
    ELSE LET m == CHOOSE r \in S : \A x \in S : x.id <= r.id
         IN <<m>> \o RowsByIdDesc(S \ {m})

\* SELECT serial_no, ..., unit_no FROM rental
\*  WHERE dept = :dept AND LOWER(status) = 'rented' ORDER BY id DESC
LoadRented(R, dept) ==
    LET rows == RowsByIdDesc({r \in R : r.dept = dept /\ IsRented(r)})
    IN [i \in 1..Len(rows) |->
           [serial_no |-> rows[i].serial_no, unit_no |-> rows[i].unit_no]]

\* ------------------------------------------------- delete_rentals
\* the DELETE without its status filter
PurgeRowsAnyStatus(R, serials) == {r \in R : r.serial_no \notin serials}

\* DELETE FROM rental WHERE serial_no IN (...) AND LOWER(status) = 'rented'
PurgeRows(R, serials) == {r \in R : ~(r.serial_no \in serials /\ IsRented(r))}

\* ------------------------------------------------- admin_rent_status
\* LEFT JOIN rental r ON r.unit_no = u.unit_no AND LOWER(r.status) = 'rented'
\* WHERE r.id IS NULL: the dashboard's list of available units
AvailableUnits(U, R) ==
    {u \in U : ~\E r \in R : r.unit_no = u.unit_no /\ IsRented(r)}

\* SELECT COUNT(DISTINCT unit_no) FROM rental WHERE LOWER(status)='rented'
RentedUnitsCount(R) == Cardinality({r.unit_no : r \in RentedRows(R)})

\* max(total_units_count - (rented_units or 0), 0)
AvailableCount(U, R) ==
    IF Cardinality(U) - RentedUnitsCount(R) > 0
    THEN Cardinality(U) - RentedUnitsCount(R)
    ELSE 0

\* ------------------------------------------------- get_bundle_units
\* CASE WHEN EXISTS(SELECT 1 FROM rental r WHERE r.unit_no = u.unit_no
\*                  AND LOWER(r.status) = 'rented') THEN 'rented' ELSE 'available'
BundleUnitState(u, R) ==
    IF \E r \in R : r.unit_no = u.unit_no /\ IsRented(r)
    THEN "rented"
    ELSE "available"

\* the rows of the answer for bundle_id: unit_no, serial_no, state
GetBundleUnits(U, R, bundle_id) ==
    {[unit_no |-> u.unit_no, serial_no |-> u.serial_no,
      state |-> BundleUnitState(u, R)] : u \in {x \in U : x.bundle_id = bundle_id}}

\* ------------------------------------------------- delete_returns
\* DELETE FROM rental WHERE id IN :ids
DeleteRowsById(R, ids) == {r \in R : r.id \notin ids}

\* ------------------------------------------------- admin_delete_walkies
\* the DELETE without its NOT IN guard
DeleteWalkiesUnguarded(U, R, unit_nos) == {u \in U : u.unit_no \notin unit_nos}

\* DELETE FROM walkie_talkie_units WHERE unit_no IN :unit_nos
\*    AND unit_no NOT IN (SELECT unit_no FROM rental WHERE LOWER(status)='rented')
DeleteWalkies(U, R, unit_nos) ==
    {u \in U : ~(/\ u.unit_no \in unit_nos
                 /\ u.unit_no \notin {r.unit_no : r \in RentedRows(R)})}

\* ------------------------------------------------- admin_add_equipment_bundle
\* the existence check on unit_no alone
UnitExistsByUnitNo(U, unit_no, serial_no) == \E u \in U : u.unit_no = unit_no

\* SELECT 1 FROM walkie_talkie_units WHERE unit_no = :unit_no OR serial_no = :serial_no
UnitExists(U, unit_no, serial_no) ==
    \E u \in U : u.unit_no = unit_no \/ u.serial_no = serial_no

\* for i in range(total_qty): ... continue / INSERT
RECURSIVE BundleLoop(_, _, _, _, _, _)
BundleLoop(U, bundle_id, total_qty, start_unit_no, start_sn, i) ==
    IF i >= total_qty THEN U
    ELSE LET unit_no == FormatUnitNo(start_unit_no + i)
             serial_no == FormatSerial(start_sn + i)
         IN IF UnitExists(U, unit_no, serial_no)
            THEN BundleLoop(U, bundle_id, total_qty, start_unit_no, start_sn, i + 1)
            ELSE BundleLoop(U \cup {[unit_no |-> unit_no, serial_no |-> serial_no,
                                     bundle_id |-> bundle_id]},
                            bundle_id, total_qty, start_unit_no, start_sn, i + 1)

\* ------------------------------------------------------------------ inputs
\* sequence numbers a bundle can generate
UnitSeqs == 1..(MaxStartUnitNo + MaxQty - 1)

\* unit ids a claim form can carry: generated labels, and one that differs
\* from "No.1" by case and by a leading space only
\* ("No.2, no.1".split(",") yields " no.1")
ClaimIdPool ==
    {FormatUnitNo(n) : n \in 1..MaxClaimSeq} \cup {<<" ", "n", "o", ".", "1">>}

\* identifiers a return or purge form can carry: the serial_no of the ledger
\* rows (the forms list them) and one serial that may match no row
SerialPool == {r.serial_no : r \in rental} \cup {FormatSerial(1)}

Batches(S) == UNION {[1..n -> S] : n \in 1..MaxBatch}

Response(op, result) == [op |-> op, result |-> result]

\* ------------------------------------------------- rental_items (form)
\* str.split(","): the pieces between the commas, "" gives [""]
RECURSIVE SplitComma(_)
SplitComma(s) ==
    IF \A i \in 1..Len(s) : s[i] # ","
    THEN <<s>>
    ELSE LET k == CHOOSE i \in 1..Len(s) :
                      s[i] = "," /\ \A j \in 1..(i - 1) : s[j] # ","
         IN <<SubSeq(s, 1, k - 1)>> \o SplitComma(SubSeq(s, k + 1, Len(s)))

\* selected_units: items is getlist("items"), equipment_ids is
\* getlist("equipment_ids"); form.get("items") is the first value of the key.
\* A list is falsy only when it has no element: [""] is not.
SelectedUnits(items, equipment_ids) ==
    LET csv == PyStrip(IF items = <<>> THEN <<>> ELSE items[1])
        parsed == SelectSeq(SplitComma(csv), LAMBDA x : x # <<>>)
    IN IF parsed # <<>> THEN parsed
       ELSE IF items # <<>> THEN items
       ELSE equipment_ids

\* ------------------------------------------------------------------ handlers
\* POST /admin/equipment/add_bundle
CreateBundle(total_qty, start_unit_no, start_sn) ==
    /\ IF total_qty <= 0
       THEN UNCHANGED <<units, equipment, seq>>
       ELSE LET bundle_id == seq.equipment + 1
            IN /\ equipment' = equipment \cup
                       {[id |-> bundle_id, total_qty |-> total_qty,
                         available_qty |-> total_qty]}
               /\ seq' = [seq EXCEPT !.equipment = bundle_id]
               /\ units' = BundleLoop(units, bundle_id, total_qty,
                                      start_unit_no, start_sn, 0)
    /\ last' = Response("add_bundle", "redirect")
    /\ UNCHANGED <<rental, returns_log, sess>>

\* POST /rental_items with a non-empty selection
Claim(dept, selected) ==
    /\ rental' = ClaimInsert(rental, seq.rental, dept, selected,
                             ClaimSerials(units, selected))
    /\ seq' = [seq EXCEPT !.rental = seq.rental + Len(selected)]
    /\ last' = Response("claim", "redirect")
    /\ UNCHANGED <<units, returns_log, equipment, sess>>

\* POST /rental_items with nothing selected
ClaimNothing ==
    /\ last' = Response("claim", "warning")
    /\ UNCHANGED <<units, rental, returns_log, equipment, seq, sess>>

\* POST /rental_items: the form is parsed, then one of the two branches runs
RentalItemsPost(dept, items, equipment_ids) ==
    LET selected_units == SelectedUnits(items, equipment_ids)
    IN IF selected_units = <<>> THEN ClaimNothing ELSE Claim(dept, selected_units)

\* POST /return_items with a non-empty selection
ReturnUnits(dept, selected) ==
    LET st == ReturnLoop(ReturnState, dept, selected, 1)
    IN /\ rental' = st.rental
       /\ returns_log' = st.log
       /\ seq' = [seq EXCEPT !.returns_log = st.logseq]
       /\ last' = Response("return", "redirect")
       /\ UNCHANGED <<units, equipment, sess>>

\* POST /delete_rentals
PurgeOpenEntries(serials) ==
    /\ rental' = IF serials = {} THEN rental ELSE PurgeRows(rental, serials)
    /\ last' = Response("purge", "redirect")
    /\ UNCHANGED <<units, returns_log, equipment, seq, sess>>

\* POST /admin/return_status/delete
DeleteReturns(ids) ==
    /\ IF ids = {}
       THEN /\ UNCHANGED rental
            /\ last' = Response("delete_returns", "warning")
       ELSE /\ rental' = DeleteRowsById(rental, ids)
            /\ last' = Response("delete_returns", "redirect")
    /\ UNCHANGED <<units, returns_log, equipment, seq, sess>>

\* the delete followed by a recount of the aggregate rows
DeleteUnitsRecounting(unit_nos) ==
    LET U == IF unit_nos = {} THEN units ELSE DeleteWalkies(units, rental, unit_nos)
        count(id) == Cardinality({u \in U : u.bundle_id = id})
    IN /\ units' = U
       /\ equipment' = {[e EXCEPT !.total_qty = count(e.id),
                                  !.available_qty = count(e.id)] : e \in equipment}
       /\ last' = Response("delete_units", "redirect")
       /\ UNCHANGED <<rental, returns_log, seq, sess>>

\* POST /admin/walkies/delete
DeleteUnits(unit_nos) ==
    /\ units' = IF unit_nos = {} THEN units ELSE DeleteWalkies(units, rental, unit_nos)
    /\ last' = Response("delete_units", "redirect")
    /\ UNCHANGED <<rental, returns_log, equipment, seq, sess>>

SmallSubsets(S) == {T \in SUBSET S : Cardinality(T) <= MaxBatch}

BundleInputs == (0..MaxQty) \X (1..MaxStartUnitNo) \X (1..MaxStartSerial)

\* ---------------------------------------------------- sequential requests
DoCreateBundle ==
    \E in \in BundleInputs :
        /\ seq.equipment < MaxBundles
        /\ CreateBundle(in[1], in[2], in[3])
DoClaim ==
    \E d \in Depts, sel \in Batches(ClaimIdPool) :
        /\ seq.rental + Len(sel) <= MaxRentals
        /\ Claim(d, sel)
\* forms of the page that posts its selection as one comma separated field:
\* nothing selected (the field is posted blank), one unit, two units
ItemsCsvPool ==
    {<<>>,
     <<"N", "o", ".", "1">>,
     <<"N", "o", ".", "2", ",", " ", "n", "o", ".", "1">>}

DoRentalItemsPost ==
    \E d \in Depts, csv \in ItemsCsvPool :
        /\ seq.rental + Len(SelectedUnits(<<csv>>, <<>>)) <= MaxRentals
        /\ RentalItemsPost(d, <<csv>>, <<>>)
DoReturnUnits == \E d \in Depts, sel \in Batches(SerialPool) : ReturnUnits(d, sel)
DoPurgeOpenEntries == \E S \in SmallSubsets(SerialPool) : PurgeOpenEntries(S)
DoDeleteReturns == \E S \in SmallSubsets({r.id : r \in rental}) : DeleteReturns(S)
DoDeleteUnits ==
    \E S \in SmallSubsets({FormatUnitNo(n) : n \in UnitSeqs}) : DeleteUnits(S)

Next ==
    \/ DoCreateBundle
    \/ DoClaim
    \/ ClaimNothing
    \/ DoRentalItemsPost
    \/ DoReturnUnits
    \/ DoPurgeOpenEntries
    \/ DoDeleteReturns
    \/ DoDeleteUnits

Spec == Init /\ [][Next]_vars

\* ---------------------------------------------------- registry requests
\* Two administrator sessions create bundles statement by statement.  The
\* INSERT INTO equipment is the first statement of the handler: it takes the
\* write lock of the database file, which the session holds until COMMIT, and
\* every other writing statement waits for it.
WriteLocked == \E s \in Sessions : sess[s].pc = "bundling"

\* POST /admin/equipment/add_bundle up to and including INSERT INTO equipment
BundleBegin(s, total_qty, start_unit_no, start_sn) ==
    /\ sess[s].pc = "idle"
    /\ IF total_qty <= 0
       THEN /\ last' = Response("add_bundle", "redirect")
            /\ UNCHANGED <<equipment, seq, sess>>
       ELSE LET bundle_id == seq.equipment + 1
            IN /\ ~WriteLocked
               /\ equipment' = equipment \cup
                       {[id |-> bundle_id, total_qty |-> total_qty,
                         available_qty |-> total_qty]}
               /\ seq' = [seq EXCEPT !.equipment = bundle_id]
               /\ sess' = [sess EXCEPT ![s] =
                       [pc |-> "bundling", bundle_id |-> bundle_id,
                        total_qty |-> total_qty, start_unit_no |-> start_unit_no,
                        start_sn |-> start_sn, i |-> 0]]
               /\ UNCHANGED last
    /\ UNCHANGED <<units, rental, returns_log>>

\* one iteration of the loop: the SELECT, then continue or INSERT
BundleStep(s) ==
    LET c == sess[s]
    IN /\ c.pc = "bundling"
       /\ c.i < c.total_qty
       /\ units' = BundleLoop(units, c.bundle_id, c.i + 1,
                              c.start_unit_no, c.start_sn, c.i)
       /\ sess' = [sess EXCEPT ![s].i = c.i + 1]
       /\ UNCHANGED <<rental, returns_log, equipment, seq, last>>

\* the end of the `with engine.begin()` block: COMMIT, then the redirect
BundleCommit(s) ==
    /\ sess[s].pc = "bundling"
    /\ sess[s].i = sess[s].total_qty
    /\ sess' = [sess EXCEPT ![s] = Idle]
    /\ last' = Response("add_bundle", "redirect")
    /\ UNCHANGED <<units, rental, returns_log, equipment, seq>>

RegBundleBegin(s) ==
    \E in \in BundleInputs :
        /\ seq.equipment < MaxBundlesReg
        /\ BundleBegin(s, in[1], in[2], in[3])
RegDeleteUnits == ~WriteLocked /\ DoDeleteUnits
RegClaim ==
    \E id \in ClaimIdPool :
        /\ ~WriteLocked
        /\ seq.rental < MaxRentalsReg
        /\ Claim("Ops", <<id>>)
RegReturnUnits == \E sn \in SerialPool : ~WriteLocked /\ ReturnUnits("Ops", <<sn>>)

NextRegistry ==
    \/ \E s \in Sessions :
        \/ RegBundleBegin(s)
        \/ BundleStep(s)
        \/ BundleCommit(s)
    \/ RegDeleteUnits
    \/ RegClaim
    \/ RegReturnUnits

SpecRegistry == Init /\ [][NextRegistry]_vars

\* ---------------------------------------------------- concurrent sessions
\* GET /rental_items: the form lists the available units
GetRentalItems(s) ==
    /\ sess[s].pc = "idle"
    /\ sess' = [sess EXCEPT ![s] = [pc |-> "form",
                                    seen |-> {u.unit_no : u \in ListAvailable}]]
    /\ UNCHANGED <<units, rental, returns_log, equipment, seq, last>>

\* POST /rental_items, up to the first INSERT: the SELECT of the first unit
ClaimLookup(s, dept, selected) ==
    /\ sess[s].pc = "form"
    /\ \A i \in 1..Len(selected) : selected[i] \in sess[s].seen
    /\ sess' = [sess EXCEPT ![s] = [pc |-> "claiming", dept |-> dept,
                                    selected |-> selected,
                                    seen_at_lookup |-> sess[s].seen,
                                    serial |-> LookupSerial(units, selected[1])]]
    /\ UNCHANGED <<units, rental, returns_log, equipment, seq, last>>

\* the first INSERT and the rest of the loop, up to COMMIT
ClaimCommit(s) ==
    LET c == sess[s]
        serials == [i \in 1..Len(c.selected) |->
                        IF i = 1 THEN c.serial ELSE LookupSerial(units, c.selected[i])]
    IN /\ c.pc = "claiming"
       /\ rental' = ClaimInsert(rental, seq.rental, c.dept, c.selected, serials)
       /\ seq' = [seq EXCEPT !.rental = seq.rental + Len(c.selected)]
       /\ last' = Response("claim", "redirect")
       /\ sess' = [sess EXCEPT ![s] = Idle]
       /\ UNCHANGED <<units, returns_log, equipment>>

\* one SELECT of the return loop while the request has written nothing yet
ReturnSelect(s, dept, selected, i) ==
    LET id == FindOpenEntry(rental, dept, selected[i])
    IN IF id # 0
       THEN /\ sess' = [sess EXCEPT ![s] = [pc |-> "closing", dept |-> dept,
                                            selected |-> selected, i |-> i, id |-> id]]
            /\ UNCHANGED last
       ELSE IF i < Len(selected)
       THEN /\ sess' = [sess EXCEPT ![s] = [pc |-> "returning", dept |-> dept,
                                            selected |-> selected, i |-> i + 1]]
            /\ UNCHANGED last
       ELSE /\ sess' = [sess EXCEPT ![s] = Idle]
            /\ last' = Response("return", "redirect")

\* POST /return_items: the first SELECT
ReturnLookup(s, dept, selected) ==
    /\ sess[s].pc = "idle"
    /\ ReturnSelect(s, dept, selected, 1)
    /\ UNCHANGED <<units, rental, returns_log, equipment, seq>>

\* the next SELECT after one that found no row
ReturnLookupNext(s) ==
    /\ sess[s].pc = "returning"
    /\ ReturnSelect(s, sess[s].dept, sess[s].selected, sess[s].i)
    /\ UNCHANGED <<units, rental, returns_log, equipment, seq>>

\* the UPDATE and INSERT for the row found, and the rest of the loop, up to COMMIT
ReturnCommit(s) ==
    LET c == sess[s]
        st == ReturnLoop(ReturnOne(ReturnState, c.dept, c.id), c.dept, c.selected, c.i + 1)
    IN /\ c.pc = "closing"
       /\ rental' = st.rental
       /\ returns_log' = st.log
       /\ seq' = [seq EXCEPT !.returns_log = st.logseq]
       /\ last' = Response("return", "redirect")
       /\ sess' = [sess EXCEPT ![s] = Idle]
       /\ UNCHANGED <<units, equipment>>

\* both sessions act for one department: the races are between its requests
ConcDept == "Ops"

ConcCreateBundle ==
    \E in \in BundleInputs :
        /\ seq.equipment < MaxBundlesConc
        /\ CreateBundle(in[1], in[2], in[3])

ConcDeleteUnits == \E n \in UnitSeqs : DeleteUnits({FormatUnitNo(n)})

\* rows the claims already past their lookup are about to insert
Pending ==
    LET n(s) == IF sess[s].pc = "claiming" THEN Len(sess[s].selected) ELSE 0
    IN n("s1") + n("s2")

ConcClaimLookup(s) ==
    /\ sess[s].pc = "form"
    /\ \E sel \in Batches(sess[s].seen) :
        /\ seq.rental + Pending + Len(sel) <= MaxRentalsConc
        /\ ClaimLookup(s, ConcDept, sel)

ConcReturnLookup(s) ==
    \E sel \in Batches({r.serial_no : r \in rental}) : ReturnLookup(s, ConcDept, sel)

NextConc ==
    \/ ConcCreateBundle
    \/ ConcDeleteUnits
    \/ \E s \in Sessions :
        \/ GetRentalItems(s)
        \/ ConcClaimLookup(s)
        \/ ClaimCommit(s)
        \/ ConcReturnLookup(s)
        \/ ReturnLookupNext(s)
        \/ ReturnCommit(s)

SpecConc == Init /\ [][NextConc]_vars

\* ---------------------------------------------------- listing requests
\* One department claims single units under ids that differ from the
\* registered ones by case, by surrounding spaces or by a trailing tab
\* ("No.1\t,No.2".split(",") yields "No.1\t"), and returns them.
ListingIdPool ==
    {<<"N", "o", ".", "1">>,
     <<" ", "n", "o", ".", "1">>,
     <<"N", "o", ".", "1", "\t">>,
     <<"N", "o", ".", "2">>,
     <<"N", "O", ".", "2", " ">>}

ListCreateBundle ==
    \E in \in BundleInputs :
        /\ seq.equipment < MaxBundlesList
        /\ CreateBundle(in[1], in[2], in[3])
ListClaim ==
    \E id \in ListingIdPool :
        /\ seq.rental < MaxRentalsList
        /\ Claim(ConcDept, <<id>>)
ListReturnUnits == \E sn \in SerialPool : ReturnUnits(ConcDept, <<sn>>)

NextListing ==
    \/ ListCreateBundle
    \/ ListClaim
    \/ ListReturnUnits

SpecListing == Init /\ [][NextListing]_vars

\* ---------------------------------------------------- returning everything
\* Each department opens the return form and posts every row it lists.  The
\* form is served for as long as the department has rented entries, so the
\* request is weakly fair; claims are made at most MaxRentalsDrain times.
ReturnListed(d) ==
    \E listed \in {LoadRented(rental, d)} :
       /\ listed # <<>>
       /\ \E sel \in {[i \in 1..Len(listed) |-> listed[i].serial_no]} :
              ReturnUnits(d, sel)

DrainCreateBundle ==
    \E in \in BundleInputs :
        /\ seq.equipment < MaxBundlesDrain
        /\ CreateBundle(in[1], in[2], in[3])
DrainClaim ==
    \E d \in Depts, id \in ClaimIdPool :
        /\ seq.rental < MaxRentalsDrain
        /\ Claim(d, <<id>>)
DrainReturnListed == \E d \in Depts : ReturnListed(d)

NextDrain ==
    \/ DrainCreateBundle
    \/ DrainClaim
    \/ DrainReturnListed
    \/ ConcDeleteUnits

SpecDrain ==
    /\ Init
    /\ [][NextDrain]_vars
    /\ \A d \in Depts : WF_vars(ReturnListed(d))

TypeOK ==
    /\ \A r \in rental : r.id \in 1..seq.rental /\ r.status \in {"rented", "returned"}
    /\ \A u \in units : u.bundle_id \in 1..MaxBundlesReg

\* ------------------------------------------------------------------ claims
Range(f) == {f[i] : i \in DOMAIN f}

\* rows of the ledger with status rented whose unit_no is exactly u
OpenEntriesOf(R, unit_no) == {r \in RentedRows(R) : r.unit_no = unit_no}

NewRows == rental' \ rental

\* C1: in every state reachable by createBundle, claim, returnUnits,
\* purgeOpenEntries and unit delete calls, each unit_no has at most one ledger
\* entry with status rented.
C1_AtMostOneRentedPerUnit ==
    \A r1 \in RentedRows(rental), r2 \in RentedRows(rental) :
        r1.unit_no = r2.unit_no => r1.id = r2.id

\* C2: when two claims that both saw the same unit as available are submitted
\* concurrently, the one that commits second inserts no entry for that unit
\* and is answered DoubleAllocationError, so that one rented entry exists.
C2_RaceLoserRejected ==
    [][\A s \in Sessions :
          (sess[s].pc = "claiming" /\ sess'[s].pc = "idle") =>
              \A u \in Range(sess[s].selected) :
                  (u \in sess[s].seen_at_lookup /\ OpenEntriesOf(rental, u) # {}) =>
                      /\ ~\E r \in NewRows : r.unit_no = u
                      /\ Cardinality(OpenEntriesOf(rental', u)) = 1
                      /\ last'.result = "DoubleAllocationError"]_vars

\* C3: a claim batch naming a unit that already has a rented entry inserts no
\* entry for that unit and reports DoubleAllocationError, and still claims
\* the other units of the batch.
C3_RentedUnitRejectedInBatch ==
    [][\A d \in Depts, sel \in Batches(ClaimIdPool) :
          (/\ last'.op = "claim"
           /\ Claim(d, sel)
           /\ \E u \in Range(sel) : OpenEntriesOf(rental, u) # {}) =>
              /\ \A u \in Range(sel) :
                    IF OpenEntriesOf(rental, u) # {}
                    THEN ~\E r \in NewRows : r.unit_no = u
                    ELSE \E r \in NewRows : r.unit_no = u /\ IsRented(r)
              /\ last'.result = "DoubleAllocationError"]_vars

\* C4: after returnUnits(dept, ids), a second returnUnits(dept, ids) closes 0
\* entries, appends no ReturnLogEntry and leaves the ledger unchanged.
C4_SecondReturnClosesNothing ==
    [][\A d \in Depts, sel \in Batches(SerialPool) :
          (last'.op = "return" /\ ReturnUnits(d, sel)) =>
              LET again == ReturnLoop(
                      ReturnStateOf(rental', returns_log', seq'.returns_log),
                      d, sel, 1)
              IN /\ again.closed = 0
                 /\ again.log = returns_log'
                 /\ again.rental = rental']_vars

\* C5: under every interleaving of two concurrent returnUnits calls for the
\* same department and identifier, no ledger entry has more than one
\* ReturnLogEntry, and every ReturnLogEntry is written for an entry the same
\* call closed.
C5_OneReturnLogPerEntry ==
    \A l1 \in returns_log, l2 \in returns_log :
        l1.rental_id = l2.rental_id => l1.id = l2.id

\* units hidden by a rented entry under the spec's matching (section 4.2:
\* case- and whitespace-insensitive comparison of unit_no)
RentedUnits ==
    {u \in units : \E r \in rental :
        r.status = "rented" /\ NormUnitNo(r.unit_no) = NormUnitNo(u.unit_no)}

C7_RoundTrip ==
    [][/\ \A d \in Depts, sel \in Batches(ClaimIdPool) :
            (last'.op = "claim" /\ Claim(d, sel)) =>
                \A X \in units : X.unit_no \in Range(sel) =>
                    X \notin LoadInventory(units', rental')
       /\ \A d \in Depts, X \in units :
            (/\ last = Response("claim", "redirect")
             /\ \E r \in RentedRows(rental) :
                    /\ r.id = seq.rental
                    /\ r.dept = d
                    /\ r.unit_no = X.unit_no
                    /\ r.serial_no = X.serial_no
             /\ last'.op = "return"
             /\ ReturnUnits(d, <<X.serial_no>>)) =>
                X \in LoadInventory(units', rental')]_vars

C9_UniqueUnitNoAndSerial ==
    \A u1 \in units, u2 \in units :
        (u1.unit_no = u2.unit_no \/ u1.serial_no = u2.serial_no) => u1 = u2

\* createBundle has just skipped a colliding pair and inserted another one
C9_Witness ==
    /\ last.op = "add_bundle"
    /\ \E e \in equipment :
          /\ e.id = seq.equipment
          /\ e.id > 1
          /\ {u \in units : u.bundle_id = e.id} # {}
          /\ Cardinality({u \in units : u.bundle_id = e.id}) < e.total_qty
    /\ \E u \in units : u.bundle_id = 1

RowWithId(R, id) == {r \in R : r.id = id}

C11_ReturnLogAppendOnly ==
    [][/\ returns_log \subseteq returns_log'
       /\ returns_log' # returns_log => last'.op = "return"
       /\ \A l \in returns_log' \ returns_log : l.id > seq.returns_log]_vars

\* a return has added a second row to a log whose first row is still there,
\* although the ledger entry of a logged return has been deleted
C11_Witness ==
    /\ last.op = "return"
    /\ Cardinality(returns_log) >= 2
    /\ \E l \in returns_log : RowWithId(rental, l.rental_id) = {}

\* ledger entries a return request removed or rewrote
ChangedRows == {r \in rental : r \notin rental'}

\* C12: in returnUnits, an identifier that has no rented ledger entry for the
\* submitting department (unknown, already returned, or rented only by another
\* department) is skipped: no ledger entry changes status and no
\* ReturnLogEntry is written for it, and the remaining identifiers of the
\* batch are still processed.
C12_UnmatchedIdentifierSkipped ==
    [][\A d \in Depts, sel \in Batches(SerialPool) :
          (last'.op = "return" /\ ReturnUnits(d, sel)) =>
              /\ \A r \in ChangedRows :
                    /\ r.dept = d
                    /\ IsRented(r)
                    /\ r.serial_no \in Range(sel)
                    /\ [r EXCEPT !.status = "returned", !.end_date = "stamped"] \in rental'
              /\ \A l \in returns_log' \ returns_log :
                    \E r \in ChangedRows : r.id = l.rental_id /\ l.dept = d
              /\ \A sn \in Range(sel) :
                    (\E r \in RentedRows(rental) : r.dept = d /\ r.serial_no = sn) =>
                        \E r \in ChangedRows : r.serial_no = sn
              /\ last'.result = "redirect"]_vars

\* a return request was answered although every identifier it named was
\* skipped: rented entries exist, none was closed and the log is empty
C12_Witness ==
    /\ last = Response("return", "redirect")
    /\ returns_log = {}
    /\ \E r \in RentedRows(rental) : r.serial_no = FormatSerial(1)
    /\ \A r \in rental : r.dept = "Eng" /\ IsRented(r)

\* C13: purgeOpenEntries removes exactly the ledger entries whose serial_no is
\* among the given identifiers and whose status is rented; it writes no
\* ReturnLogEntry, leaves returned entries and the registry unchanged, and the
\* units of the removed entries become available again.
C13_PurgeFreesUnits ==
    [][\A S \in SmallSubsets(SerialPool) :
          (last'.op = "purge" /\ PurgeOpenEntries(S)) =>
              /\ rental' = {r \in rental : ~(r.serial_no \in S /\ r.status = "rented")}
              /\ returns_log' = returns_log
              /\ units' = units
              /\ \A u \in units :
                    (\E r \in rental \ rental' : r.unit_no = u.unit_no) =>
                        u \in LoadInventory(units', rental')]_vars

\* the units createBundle(q, a, b) is to add to registry U as bundle id
BundleUnits(U, id, q, a, b) ==
    {[unit_no |-> FormatUnitNo(a + i), serial_no |-> FormatSerial(b + i),
      bundle_id |-> id] :
        i \in {j \in 0..(q - 1) :
                  ~\E u \in U : \/ u.unit_no = FormatUnitNo(a + j)
                                \/ u.serial_no = FormatSerial(b + j)}}

\* C14: createBundle(q, a, b) adds, for each i in 0..q-1, the unit
\* ("No."+(a+i), 6-digit zero-padded (b+i)) exactly when neither that unit_no
\* nor that serial_no is already registered, and adds nothing else to the
\* registry; on an empty registry it produces all q units and listAvailable
\* returns all of them.
C14_BundleProducesUnits ==
    [][\A in \in BundleInputs :
          (last'.op = "add_bundle" /\ CreateBundle(in[1], in[2], in[3])) =>
              /\ units \subseteq units'
              /\ units' \ units =
                    BundleUnits(units, seq.equipment + 1, in[1], in[2], in[3])
              /\ units = {} =>
                    /\ Cardinality(units') = in[1]
                    /\ LoadInventory(units', rental') = units']_vars

\* C15: every unit is AVAILABLE at the moment it is registered: immediately
\* after a createBundle call, each unit it created is in listAvailable,
\* whatever claims (including claims for not-yet-registered unit ids) preceded
\* the call.
C15_RegisteredUnitAvailable ==
    [][\A in \in BundleInputs :
          (last'.op = "add_bundle" /\ CreateBundle(in[1], in[2], in[3])) =>
              (units' \ units) \subseteq LoadInventory(units', rental')]_vars

\* C16: a claim submitted with an empty unit selection writes no ledger entry
\* and changes no state; it is answered with a warning and the current
\* available list, not an error.
C16_EmptySelectionWarned ==
    [][\A d \in Depts, csv \in ItemsCsvPool :
          (/\ last'.op = "claim"
           /\ PyStrip(csv) = <<>>
           /\ RentalItemsPost(d, <<csv>>, <<>>)) =>
              /\ UNCHANGED <<units, rental, returns_log, equipment, seq>>
              /\ last'.result = "warning"]_vars

Spaces(n) == [i \in 1..n |-> " "]

\* s with up to n spaces before it and up to n spaces after it
SpacePadded(s, n) == {Spaces(a) \o s \o Spaces(b) : a, b \in 0..n}

\* C17 as stated: listAvailable returns exactly the registered units for which
\* no rented ledger entry has a unit_no equal to the unit's after trimming
\* whitespace and folding case.
C17_WhitespaceFoldedMatch ==
    ListAvailable =
        {u \in units : ~\E r \in RentedRows(rental) :
            PyStrip(SqlUpper(r.unit_no)) = PyStrip(SqlUpper(u.unit_no))}

\* C17 amended: listAvailable returns exactly the registered units for which
\* no rented ledger entry has a unit_no that is, letters folded to upper
\* case, the unit's folded unit_no with space characters before and after it;
\* an entry that differs from a unit by case or surrounding spaces hides it,
\* an entry that differs by another whitespace character (a tab) does not.
C17_SpacePaddedFoldedMatch ==
    ListAvailable =
        {u \in units : ~\E r \in RentedRows(rental) :
            SqlUpper(r.unit_no) \in
                SpacePadded(SqlUpper(u.unit_no), Len(r.unit_no))}

\* a unit is listed although a rented entry names it with a trailing tab,
\* and another unit is hidden by an entry that differs by case and a space
C17_Witness ==
    /\ \E u \in ListAvailable : \E r \in RentedRows(rental) :
          r.unit_no = u.unit_no \o <<"\t">>
    /\ \E u \in units \ ListAvailable : \E r \in RentedRows(rental) :
          r.unit_no # u.unit_no /\ NormUnitNo(r.unit_no) = NormUnitNo(u.unit_no)

\* C18: a claim with renter info and a non-empty list of unit ids appends one
\* ledger entry with status rented per requested id and changes nothing else;
\* each entry's serial_no is the registry serial of that unit at claim time,
\* or a placeholder derived from the unit id when the unit is not registered,
\* and an unregistered id does not prevent the other ids from being claimed.
C18_ClaimAppendsOnePerId ==
    [][\A d \in Depts, sel \in Batches(ClaimIdPool) :
          (last'.op = "claim" /\ Claim(d, sel)) =>
              /\ rental \subseteq rental'
              /\ Cardinality(NewRows) = Len(sel)
              /\ \A i \in 1..Len(sel) :
                    \E r \in NewRows :
                        /\ r.id = seq.rental + i
                        /\ r.dept = d
                        /\ r.unit_no = sel[i]
                        /\ r.status = "rented"
                        /\ IF \E u \in units : u.unit_no = sel[i]
                           THEN \E u \in units :
                                    u.unit_no = sel[i] /\ r.serial_no = u.serial_no
                           ELSE r.serial_no =
                                    <<"U", "n", "k", "n", "o", "w", "n", "-">> \o sel[i]
              /\ UNCHANGED <<units, returns_log, equipment>>
              /\ last'.result = "redirect"]_vars

\* the ledger ends with two rented entries of one department, the first with
\* the serial of a registered unit, the second with a placeholder
C18_Witness ==
    /\ last = Response("claim", "redirect")
    /\ \E r1 \in RentedRows(rental), r2 \in RentedRows(rental) :
          /\ r2.id = seq.rental
          /\ r1.id = r2.id - 1
          /\ r1.dept = r2.dept
          /\ \E u \in units : u.unit_no = r1.unit_no /\ u.serial_no = r1.serial_no
          /\ ~\E u \in units : u.unit_no = r2.unit_no
          /\ r2.serial_no = UnknownSerial(r2.unit_no)

\* C19: when several rented ledger entries match the same department and
\* identifier, one occurrence of that identifier in a returnUnits batch closes
\* exactly the entry with the largest id (the most recent) and leaves the
\* older matching entries rented.
C19_MostRecentEntryClosed ==
    [][\A d \in Depts, sel \in Batches(SerialPool) :
          (/\ last'.op = "return"
           /\ \E r1 \in RentedRows(rental), r2 \in RentedRows(rental) :
                 /\ r1.id # r2.id
                 /\ r1.dept = d /\ r2.dept = d
                 /\ r1.serial_no = r2.serial_no
                 /\ r1.serial_no \in Range(sel)
           /\ ReturnUnits(d, sel)) =>
              \A sn \in Range(sel) :
                  LET matching == {r \in RentedRows(rental) :
                                      r.dept = d /\ r.serial_no = sn}
                  IN (/\ Cardinality(matching) >= 2
                      /\ Cardinality({i \in DOMAIN sel : sel[i] = sn}) = 1) =>
                         \A r \in matching :
                             IF \A x \in matching : x.id <= r.id
                             THEN /\ r \notin rental'
                                  /\ [r EXCEPT !.status = "returned",
                                               !.end_date = "stamped"] \in rental'
                                  /\ \E l \in returns_log' \ returns_log :
                                        l.rental_id = r.id
                             ELSE /\ r \in rental'
                                  /\ ~\E l \in returns_log' : l.rental_id = r.id]_vars

\* a return has closed the younger of two entries of one department and
\* serial; the older one is still rented
C19_Witness ==
    /\ last.op = "return"
    /\ \E r1 \in rental, r2 \in RentedRows(rental) :
          /\ r1.status = "returned"
          /\ r1.dept = r2.dept
          /\ r1.serial_no = r2.serial_no
          /\ r1.id > r2.id
          /\ \E l \in returns_log : l.rental_id = r1.id

\* C20: findOpenEntriesByDepartment(d) returns exactly the ledger entries
\* whose department is d and whose status is rented, ordered from the most
\* recently created to the oldest, and never an entry of another department
\* or a returned entry.
C20_OpenEntriesMostRecentFirst ==
    \A d \in Depts :
        LET listed == LoadRented(rental, d)
            open == {r \in rental : r.dept = d /\ r.status = "rented"}
        IN /\ Len(listed) = Cardinality(open)
           /\ \E f \in [1..Len(listed) -> open] :
                 /\ \A i \in 1..Len(listed) :
                       /\ listed[i].serial_no = f[i].serial_no
                       /\ listed[i].unit_no = f[i].unit_no
                 /\ \A i, j \in 1..Len(listed) : i < j => f[i].id > f[j].id

\* a department has two open entries for different units, listed next to an
\* empty list of the other department
C20_Witness ==
    \E d \in Depts, e \in Depts :
        /\ Len(LoadRented(rental, d)) = 2
        /\ LoadRented(rental, d)[1] # LoadRented(rental, d)[2]
        /\ LoadRented(rental, e) = <<>>
        /\ \E r \in rental : r.dept = d /\ r.id = 1 /\ r.unit_no = LoadRented(rental, d)[2].unit_no

\* a set of rows without their synthetic ids, each with its multiplicity
ModuloId(R) ==
    {<<[r EXCEPT !.id = 0],
       Cardinality({x \in R : [x EXCEPT !.id = 0] = [r EXCEPT !.id = 0]})>> : r \in R}

\* the batches with the same identifiers as sel in another order
Reorderings(sel) ==
    {[i \in 1..Len(sel) |-> sel[p[i]]] : p \in Permutations(1..Len(sel))}

\* C21: the state reached by a claim batch or a returnUnits batch does not
\* depend on the order of the identifiers inside the batch: any permutation of
\* the same identifiers yields the same sets of rented entries, returned
\* entries and ReturnLogEntry rows (up to synthetic ids).
C21_BatchOrderIrrelevant ==
    \A d \in Depts :
        /\ \A sel \in Batches(ClaimIdPool) : \A other \in Reorderings(sel) :
              ModuloId(ClaimInsert(rental, seq.rental, d, sel,
                                   ClaimSerials(units, sel)))
                = ModuloId(ClaimInsert(rental, seq.rental, d, other,
                                       ClaimSerials(units, other)))
        /\ \A sel \in Batches(SerialPool) : \A other \in Reorderings(sel) :
              LET a == ReturnLoop(ReturnState, d, sel, 1)
                  b == ReturnLoop(ReturnState, d, other, 1)
              IN /\ a.rental = b.rental
                 /\ ModuloId(a.log) = ModuloId(b.log)

\* two entries written one after the other with different serials have been
\* closed one after the other by returns of one department
C21_Witness ==
    /\ last.op = "return"
    /\ \E l1 \in returns_log, l2 \in returns_log :
          /\ l2.id = seq.returns_log
          /\ l1.id = l2.id - 1
          /\ l1.dept = l2.dept
          /\ \E r1 \in RowWithId(rental, l1.rental_id),
                r2 \in RowWithId(rental, l2.rental_id) :
                /\ r1.serial_no # r2.serial_no
                /\ r1.status = "returned" /\ r2.status = "returned"
                /\ r2.id = r1.id + 1

\* C22: the total_qty and available_qty of a bundle's aggregate row are
\* written when createBundle runs and are left unchanged by claim,
\* returnUnits, purgeOpenEntries and unit delete.
C22_AggregateRowWrittenOnce ==
    [][/\ last'.op \in {"claim", "return", "purge", "delete_units"} =>
              equipment' = equipment
       /\ equipment \subseteq equipment'
       /\ \A e \in equipment' \ equipment :
              /\ last'.op = "add_bundle"
              /\ e.id = seq.equipment + 1
              /\ e.total_qty > 0
              /\ e.available_qty = e.total_qty]_vars

\* a unit of the bundle is out on a claim, another one has been deleted after
\* its return, and the aggregate row still shows every unit as available
C22_Witness ==
    /\ last.op = "delete_units"
    /\ \E e \in equipment :
          /\ e.available_qty = e.total_qty
          /\ \E u \in units : u.bundle_id = e.id /\ OpenEntriesOf(rental, u.unit_no) # {}
          /\ \E r \in rental :
                /\ r.status = "returned"
                /\ ~\E u \in units : u.unit_no = r.unit_no

\* C23: no registered unit gets stuck: from every reachable state, if no new
\* claims are made and each department returns every entry listed by
\* findOpenEntriesByDepartment for it, every registered unit eventually is in
\* listAvailable (and stays there while nothing is claimed).
C23_NoUnitStuck == <>[](units \subseteq ListAvailable)

\* both departments have returned what they had, and every unit is listed
C23_Witness ==
    /\ last.op = "return"
    /\ units # {}
    /\ ListAvailable = units
    /\ \E l1 \in returns_log, l2 \in returns_log : l1.dept # l2.dept
    /\ \A r \in rental : r.status = "returned"

\* C24: unit delete removes a unit only if that unit is in listAvailable at
\* that moment: a unit that listAvailable hides because of a rented entry
\* whose unit_no matches it case- or whitespace-insensitively is never deleted.
C24_DeleteOnlyAvailable ==
    [][last'.op = "delete_units" => (units \ units') \subseteq ListAvailable]_vars

\* C25: the three read paths agree on occupancy in every reachable state: a
\* unit is reported with state available by bundle-units, and appears in the
\* admin dashboard's available list, if and only if it is in listAvailable.
C25_ReadPathsAgree ==
    \A u \in units :
        /\ u \in AvailableUnits(units, rental) <=> u \in ListAvailable
        /\ [unit_no |-> u.unit_no, serial_no |-> u.serial_no, state |-> "available"]
              \in GetBundleUnits(units, rental, u.bundle_id)
           <=> u \in ListAvailable

\* C26: in every reachable state the admin dashboard's available_count
\* (registry size minus the number of distinct unit_no values among rented
\* ledger entries, floored at 0) equals the number of units in the dashboard's
\* available list, including when claims were made for unit ids that are not
\* registered.
C26_AvailableCountMatchesList ==
    AvailableCount(units, rental) = Cardinality(AvailableUnits(units, rental))

\* C27: in every reachable state, each ReturnLogEntry references a ledger
\* entry that exists in the ledger and has status returned, also after
\* administrative deletion of ledger rows.
C27_LogReferencesReturnedEntry ==
    \A l \in returns_log :
        \E r \in rental : r.id = l.rental_id /\ r.status = "returned"

\* C28: under every interleaving of a claim (whose registry lookup and ledger
\* insert are separate steps) with a unit delete, every rented ledger entry
\* that carries a real registry serial (not the unknown-unit placeholder)
\* refers to a unit that is still registered with that serial.
C28_RentedSerialStillRegistered ==
    \A r \in RentedRows(rental) :
        r.serial_no # UnknownSerial(r.unit_no) =>
            \E u \in units : u.unit_no = r.unit_no /\ u.serial_no = r.serial_no

\* C29: immediately after createBundle returns, the total_qty and
\* available_qty stored on the new aggregate row equal the number of Unit
\* rows that carry that bundle's bundle_id, including when some generated
\* pairs were skipped because of collisions.
C29_AggregateMatchesUnits ==
    [][\A s \in Sessions :
          (sess[s].pc = "bundling" /\ sess'[s].pc = "idle") =>
              \A e \in equipment' :
                  e.id = sess[s].bundle_id =>
                      /\ e.total_qty =
                            Cardinality({u \in units' : u.bundle_id = e.id})
                      /\ e.available_qty =
                            Cardinality({u \in units' : u.bundle_id = e.id})]_vars

\* C30: a returnUnits call by department D leaves unchanged the Unit Registry,
\* every ledger entry of another department, and every ledger entry that was
\* already returned (including its stamped end date); the only ledger fields
\* it changes are the status and end date of rented entries of D that it
\* closes.  D is the department the call writes into its ReturnLogEntry rows.
C30_ReturnTouchesOwnRentedOnly ==
    [][last'.op = "return" =>
          /\ units' = units
          /\ {r.id : r \in rental'} = {r.id : r \in rental}
          /\ \E D \in Depts :
                /\ \A l \in returns_log' \ returns_log : l.dept = D
                /\ \A r \in rental :
                      \/ r \in rental'
                      \/ /\ r.dept = D
                         /\ r.status = "rented"
                         /\ [r EXCEPT !.status = "returned",
                                      !.end_date = "stamped"] \in rental'
                         /\ \E l \in returns_log' \ returns_log :
                               l.rental_id = r.id]_vars

\* a department has closed its entry for a serial that the other department
\* still holds rented, next to nothing else
C30_Witness ==
    /\ last.op = "return"
    /\ \E r1 \in rental, r2 \in RentedRows(rental) :
          /\ r1.status = "returned"
          /\ r1.dept # r2.dept
          /\ r1.serial_no = r2.serial_no
          /\ \E l \in returns_log : l.rental_id = r1.id /\ l.dept = r1.dept

====
